---- MODULE Spec2Model ----
(***************************************************************************)
(* Model of the RAG pipeline of generate-summary: the ingestion functions  *)
(* processPdf and processLink, the query functions queryDocument and       *)
(* queryPdfDocument, the three tables of the Supabase database, the        *)
(* match_pdf_chunks stored procedure and the temporary files of the PDF    *)
(* loader; with them the summary function generateSummary and the two      *)
(* client components Home and ChatInterface.  A step of a server action    *)
(* ends at an await that reaches the file system, the database, the        *)
(* embedding service or the model, so concurrent server actions interleave *)
(* there and nowhere else; an await that touches only the locals of its    *)
(* call belongs to the step around it.  A step of a component is one       *)
(* event handler up to its await, or the rest of it after the await.       *)
(***************************************************************************)
EXTENDS Integers, Sequences, FiniteSets, TLC

VARIABLES
  fs,            \* os.tmpdir(): temporary path -> the upload written there
  pdfs,          \* table pdfs
  pdf_chunks,    \* table pdf_chunks
  chat_history,  \* table chat_history, in insertion order
  ing,           \* the running processPdf / processLink calls
  qry,           \* the running queryPdfDocument / queryDocument calls
  gen,           \* the running generateSummary calls
  home,          \* the state of the Home component
  chat           \* the state of the ChatInterface component

vars == <<fs, pdfs, pdf_chunks, chat_history, ing, qry, gen, home, chat>>

-----------------------------------------------------------------------------
(* Bounds of the model *)

MaxStamp == 1
MaxChat == 2

-----------------------------------------------------------------------------
(* Values *)

TEMPORARY_USER_ID == "user123"

NULL == "NULL"
NoFile == "NoFile"

\* The calls of the server actions: three uploads of the PDF tab, one link of
\* the URL tab, two messages of the chat.
PdfCalls == {"p1", "p2", "p3"}
LinkCalls == {"l1"}
IngestCalls == PdfCalls \cup LinkCalls
QueryCalls == {"q1", "q2"}

\* The uploads offered to processPdf: "A" has two pages of text, "B" one long
\* page that splits into six chunks, "S" is a scanned page without text, "E"
\* parses to no page at all.
Uploads == {"A", "B", "S", "E"}
\* The uploads a call may be made with: the long one is the upload of "p3".
Offered(i) == IF i = "p3" THEN {"B"} ELSE Uploads \ {"B"}
\* The URLs offered to processLink.
Urls == {"u1"}
\* formData.get("userId") of processLink and queryDocument: absent or set.
FormUserIds == {NULL, "mallory"}

\* The values Date.now() takes while the calls start, each the name of a
\* temporary file: pdf-${Date.now()}.pdf
Paths == 0..MaxStamp

\* A JSON value: its type tag and its text.
Str(s) == [t |-> "str", v |-> s]
Num(s) == [t |-> "num", v |-> s]
Obj(s) == [t |-> "obj", v |-> s]

\* JavaScript String(value): a string is itself, a number its decimal text,
\* an object "[object Object]".
String(value) ==
  IF value.t = "obj" THEN Str("[object Object]") ELSE Str(value.v)

\* Postgres metadata->>'key': the value as text, NULL for a missing key.
JsonText(metadata, key) ==
  IF key \in DOMAIN metadata
    THEN (IF metadata[key].t = "obj" THEN "{}" ELSE metadata[key].v)
    ELSE NULL

\* The texts of the model that parse as JSON (numerals); a uuid never does.
JsonTexts == {"42"}

\* PostgREST metadata->key=eq.text: the text is read as a jsonb literal, which
\* is an error for a text that is not JSON; jsonb equality compares type and
\* value.
JsonArrowError(text) == text \notin JsonTexts

JsonArrowEq(metadata, key, text) ==
  /\ key \in DOMAIN metadata
  /\ metadata[key] = Num(text)

-----------------------------------------------------------------------------
(* Loaders and splitter *)

\* PDFLoader.load(): one document per page, with the loader's metadata; len is
\* the number of chunks the text of the page splits into.
PdfPages(upload, path) ==
  LET meta == [source |-> Str(ToString(path)), loc |-> Obj("pageNumber")]
  IN  CASE upload = "A" ->
             << [pageContent |-> "A1", len |-> 1, metadata |-> meta],
                [pageContent |-> "A2", len |-> 1, metadata |-> meta] >>
        [] upload = "B" ->
             << [pageContent |-> "B1", len |-> 6, metadata |-> meta] >>
        [] upload = "S" ->
             << [pageContent |-> "S1", len |-> 0, metadata |-> meta] >>
        [] OTHER -> << >>

\* CheerioWebBaseLoader.load(): always one document, the text of the page.
WebPages(url) ==
  << [pageContent |-> "U1", len |-> 1, metadata |-> [source |-> Str(url)]] >>

\* docs.map(doc => doc.pageContent).join("\n\n")
FullText(docs) == [i \in 1..Len(docs) |-> docs[i].pageContent]

\* The metadata processPdf gives each page before splitting.
PdfMetadata(doc, pdfId, userId) ==
  [k \in DOMAIN doc.metadata \cup {"pdf_id", "user_id"} |->
     CASE k = "pdf_id" -> Str(pdfId)
       [] k = "user_id" -> Str(userId)
       [] OTHER -> doc.metadata[k]]

\* The metadata processLink gives each page before splitting.
LinkMetadata(doc, pdfId, userId, url) ==
  [k \in DOMAIN doc.metadata \cup {"pdf_id", "user_id", "source_type", "source"} |->
     CASE k = "pdf_id" -> Str(pdfId)
       [] k = "user_id" -> Str(userId)
       [] k = "source_type" -> Str("link")
       [] k = "source" -> Str(url)
       [] OTHER -> doc.metadata[k]]

\* RecursiveCharacterTextSplitter.splitDocuments: the chunks of every page in
\* order, each with the metadata of its page plus loc.lines.
RECURSIVE splitDocuments(_)
splitDocuments(docs) ==
  IF docs = << >> THEN << >>
  ELSE LET d == Head(docs)
           md == [k \in DOMAIN d.metadata \cup {"loc"} |->
                    IF k = "loc" THEN Obj("lines") ELSE d.metadata[k]]
       IN  [k \in 1..d.len |->
              [pageContent |-> <<d.pageContent, k>>, metadata |-> md]]
           \o splitDocuments(Tail(docs))

\* Mutant of preparedMetadata: the metadata is stored as the splitter left it.
preparedMetadataRaw(metadata) == metadata

\* Object.entries(doc.metadata).reduce(... acc[key] = String(value) ...)
preparedMetadata(metadata) ==
  [k \in DOMAIN metadata |-> String(metadata[k])]

preparedDocs(chunkedDocs) ==
  [i \in 1..Len(chunkedDocs) |->
     [pageContent |-> chunkedDocs[i].pageContent,
      metadata |-> preparedMetadata(chunkedDocs[i].metadata)]]

-----------------------------------------------------------------------------
(* Embeddings *)

\* JinaEmbeddings.embedDocuments: the vector of a chunk (one coordinate in the
\* model), from the text it was cut from and its position in that text.
embedDocument(content) ==
  CASE content[1] = "A1" -> content[2] - 1
    [] content[1] = "A2" -> content[2]
    [] content[1] = "U1" -> content[2] + 1
    [] content[1] = "B1" -> content[2] + 1
    [] OTHER -> 0

\* JinaEmbeddings.embedQuery: the vector of a question.
embedQuery(query) == IF query = "what" THEN 0 ELSE 1

\* embedding <=> query_vector: the distance of two vectors.
Distance(a, b) == IF a >= b THEN a - b ELSE b - a

-----------------------------------------------------------------------------
(* The database *)

\* A call to Supabase answers with data, answers with an error object, or
\* rejects.
DbOutcomes == {"ok", "error", "throws"}

\* gen_random_uuid() of pdfs.id: an id no row has.
DocIds == <<"d1", "d2">>
NewDocId == DocIds[Cardinality(pdfs) + 1]

\* .filter("metadata->>pdf_id", "eq", pdfId): the rows whose metadata has that
\* text under pdf_id.
TextFilter(rows, pdfId) == {c \in rows : JsonText(c.metadata, "pdf_id") = pdfId}

\* .filter("metadata->pdf_id", "eq", pdfId): the rows whose metadata has that
\* jsonb value under pdf_id.
ArrowFilter(rows, pdfId) == {c \in rows : JsonArrowEq(c.metadata, "pdf_id", pdfId)}

\* SupabaseVectorStore.fromDocuments: one row per document, with content,
\* embedding and metadata; the column pdf_id is not set.
ChunkRows(docs, by) ==
  { [content |-> docs[k].pageContent,
     embedding |-> embedDocument(docs[k].pageContent),
     metadata |-> docs[k].metadata,
     pdf_id |-> NULL,
     by |-> by] : k \in 1..Len(docs) }

-----------------------------------------------------------------------------
(* processPdf *)

NoResult == [status |-> "none", id |-> NULL, summary |-> NULL, error |-> NULL]

\* The locals of a call, and what the call has done so far: steps are the
\* steps of the pipeline it ran, in order, failed the step that threw.
IdleCall ==
  [pc |-> "idle", kind |-> "none", src |-> NULL, userId |-> NULL, path |-> 0,
   wrote |-> FALSE, docs |-> << >>, pdfId |-> NULL, chunked |-> << >>,
   summaryFailed |-> FALSE, steps |-> << >>, failed |-> NULL, result |-> NoResult]

\* if (fs.existsSync(tempFilePath)) fs.unlinkSync(tempFilePath)
Cleanup(path) == [fs EXCEPT ![path] = NoFile]

\* A call that ended: its locals are gone, its result stays.
Ended(c, result) ==
  [c EXCEPT !.pc = "done", !.docs = << >>, !.chunked = << >>, !.result = result]

Rejected(msg) == [status |-> "rejected", id |-> NULL, summary |-> NULL, error |-> msg]

\* The call c after the steps `ran`.
Ran(c, ran) == [c EXCEPT !.steps = @ \o ran]

\* The call c after the steps `ran`, the last of which threw.
Failed(c, ran, msg) ==
  Ended([c EXCEPT !.steps = @ \o ran, !.failed = ran[Len(ran)]], Rejected(msg))

\* Mutant of PdfCatch: the error is rethrown and the file stays.
PdfCatchNoCleanup(i, c, ran, msg) ==
  /\ fs' = fs
  /\ ing' = [ing EXCEPT ![i] = Failed(c, ran, msg)]

\* The catch block of processPdf: remove the temporary file, rethrow.  The
\* removal itself is taken to succeed.
PdfCatch(i, c, ran, msg) ==
  /\ fs' = Cleanup(c.path)
  /\ ing' = [ing EXCEPT ![i] = Ran(Failed(c, ran, msg), <<"cleanup">>)]

\* Validation and the name of the temporary file, made of Date.now(): any
\* two calls may read the same millisecond or different ones.
PdfStart(i) ==
  /\ ing[i].pc = "idle"
  /\ \E file \in Offered(i) \cup {NULL}, now \in Paths :
       IF file = NULL
         THEN ing' = [ing EXCEPT ![i] =
                        Ended([ing[i] EXCEPT !.kind = "pdf"], Rejected("No file provided"))]
         ELSE ing' = [ing EXCEPT ![i] =
                        [ing[i] EXCEPT !.pc = "buffer", !.kind = "pdf", !.src = file,
                                       !.userId = TEMPORARY_USER_ID, !.path = now]]
  /\ UNCHANGED <<gen, home, chat, fs, pdfs, pdf_chunks, chat_history, qry>>

\* await file.arrayBuffer(); fs.writeFileSync(tempFilePath, buffer)
PdfWrite(i) ==
  /\ ing[i].pc = "buffer" /\ ing[i].kind = "pdf"
  /\ fs' = [fs EXCEPT ![ing[i].path] = ing[i].src]
  /\ ing' = [ing EXCEPT ![i] =
               Ran([ing[i] EXCEPT !.pc = "load", !.wrote = TRUE], <<"write">>)]
  /\ UNCHANGED <<gen, home, chat, pdfs, pdf_chunks, chat_history, qry>>

\* Mutant of PdfLoad: the pages are not counted.
PdfLoadNoCheck(i) ==
  /\ ing[i].pc = "load" /\ ing[i].kind = "pdf"
  /\ \E parsed \in BOOLEAN :
       LET content == fs[ing[i].path]
           docs == PdfPages(content, ing[i].path)
       IN  IF content = NoFile \/ ~parsed
             THEN PdfCatch(i, ing[i], <<"load">>, "load failed")
             ELSE /\ ing' = [ing EXCEPT ![i] =
                        Ran([ing[i] EXCEPT !.pc = "insert", !.docs = docs],
                            <<"load", "check">>)]
                  /\ fs' = fs
  /\ UNCHANGED <<gen, home, chat, pdfs, pdf_chunks, chat_history, qry>>

\* await loader.load() and the check that pages were loaded.
PdfLoad(i) ==
  /\ ing[i].pc = "load" /\ ing[i].kind = "pdf"
  /\ \E parsed \in BOOLEAN :
       LET content == fs[ing[i].path]
           docs == PdfPages(content, ing[i].path)
       IN  IF content = NoFile \/ ~parsed
             THEN PdfCatch(i, ing[i], <<"load">>, "load failed")
             ELSE IF Len(docs) = 0
               THEN PdfCatch(i, ing[i], <<"load", "check">>,
                             "Could not extract any content from the provided PDF file.")
               ELSE /\ ing' = [ing EXCEPT ![i] =
                          Ran([ing[i] EXCEPT !.pc = "insert", !.docs = docs],
                              <<"load", "check">>)]
                    /\ fs' = fs
  /\ UNCHANGED <<gen, home, chat, pdfs, pdf_chunks, chat_history, qry>>

\* supabaseClient.from("pdfs").insert({name, content, user_id}).select().single()
\* and, with the id of the new row, await textSplitter.splitDocuments(
\* docs.map(... pdf_id, user_id ...)): the split touches nothing but the call.
PdfInsert(i) ==
  /\ ing[i].pc = "insert" /\ ing[i].kind = "pdf"
  /\ \E outcome \in DbOutcomes, split \in BOOLEAN :
       IF outcome = "ok"
         THEN /\ pdfs' = pdfs \cup { [id |-> NewDocId, name |-> ing[i].src,
                                      content |-> FullText(ing[i].docs),
                                      user_id |-> ing[i].userId, by |-> i] }
              /\ IF split
                   THEN /\ ing' = [ing EXCEPT ![i] = Ran([ing[i] EXCEPT
                             !.pc = "store", !.pdfId = NewDocId,
                             !.chunked = splitDocuments(
                                [k \in 1..Len(ing[i].docs) |->
                                   [ing[i].docs[k] EXCEPT !.metadata =
                                      PdfMetadata(ing[i].docs[k], NewDocId, ing[i].userId)]])],
                             <<"insert", "split">>)]
                        /\ fs' = fs
                   ELSE PdfCatch(i, [ing[i] EXCEPT !.pdfId = NewDocId],
                                 <<"insert", "split">>, "split failed")
         ELSE /\ split
              /\ PdfCatch(i, ing[i], <<"insert">>, "Failed to store document")
              /\ pdfs' = pdfs
  /\ UNCHANGED <<gen, home, chat, pdf_chunks, chat_history, qry>>

\* Mutant of PdfStore: a failed store takes back the document of the call.
PdfStoreRollback(i) ==
  /\ ing[i].pc = "store" /\ ing[i].kind = "pdf"
  /\ \E outcome \in {"ok", "embedding failed", "insert failed"} :
       IF outcome = "ok"
         THEN /\ pdf_chunks' = pdf_chunks \cup ChunkRows(preparedDocs(ing[i].chunked), i)
              /\ ing' = [ing EXCEPT ![i] =
                   Ran([ing[i] EXCEPT !.pc = "summary"], <<"embed", "store", "verify">>)]
              /\ fs' = fs
              /\ pdfs' = pdfs
         ELSE /\ PdfCatch(i, ing[i],
                          IF outcome = "embedding failed" THEN <<"embed">>
                                                          ELSE <<"embed", "store">>,
                          "Failed to store document chunks")
              /\ pdf_chunks' = pdf_chunks
              /\ pdfs' = {d \in pdfs : d.id # ing[i].pdfId}
  /\ UNCHANGED <<gen, home, chat, chat_history, qry>>

\* Mutant of PdfStore: a failure of the embedding or of the insert is logged
\* and the call goes on to the summary.
PdfStoreNonFatal(i) ==
  /\ ing[i].pc = "store" /\ ing[i].kind = "pdf"
  /\ \E outcome \in {"ok", "embedding failed", "insert failed"} :
       /\ pdf_chunks' = IF outcome = "ok"
                          THEN pdf_chunks \cup ChunkRows(preparedDocs(ing[i].chunked), i)
                          ELSE pdf_chunks
       /\ ing' = [ing EXCEPT ![i] =
            IF outcome = "ok"
              THEN Ran([ing[i] EXCEPT !.pc = "summary"], <<"embed", "store", "verify">>)
              ELSE Ran([ing[i] EXCEPT !.pc = "summary", !.failed = "embed"], <<"embed">>)]
  /\ fs' = fs
  /\ UNCHANGED <<gen, home, chat, pdfs, chat_history, qry>>

\* preparedDocs and await SupabaseVectorStore.fromDocuments(preparedDocs, ...):
\* the embedding of every chunk, then the insert of the rows; then the count of
\* the stored chunks, which is logged whatever it is.  A request that rejects
\* there is caught like a failed store.
PdfStore(i) ==
  /\ ing[i].pc = "store" /\ ing[i].kind = "pdf"
  /\ \E outcome \in {"ok", "embedding failed", "insert failed", "count throws"} :
       IF outcome \in {"ok", "count throws"}
         THEN /\ pdf_chunks' = pdf_chunks \cup ChunkRows(preparedDocs(ing[i].chunked), i)
              /\ IF outcome = "ok"
                   THEN /\ ing' = [ing EXCEPT ![i] =
                             Ran([ing[i] EXCEPT !.pc = "summary"],
                                 <<"embed", "store", "verify">>)]
                        /\ fs' = fs
                   ELSE PdfCatch(i, ing[i], <<"embed", "store", "verify">>,
                                 "Failed to store document chunks")
         ELSE /\ PdfCatch(i, ing[i],
                          IF outcome = "embedding failed" THEN <<"embed">>
                                                          ELSE <<"embed", "store">>,
                          "Failed to store document chunks")
              /\ pdf_chunks' = pdf_chunks
  /\ UNCHANGED <<gen, home, chat, pdfs, chat_history, qry>>

\* Mutant of PdfSummary: a failed summary fails the call.
PdfSummaryFatal(i) ==
  /\ ing[i].pc = "summary" /\ ing[i].kind = "pdf"
  /\ \E generated \in BOOLEAN :
       ing' = [ing EXCEPT ![i] =
                 IF generated
                   THEN Ended(ing[i], [status |-> "ok", id |-> ing[i].pdfId,
                                       summary |-> "summary", error |-> NULL])
                   ELSE Ended([ing[i] EXCEPT !.summaryFailed = TRUE],
                              Rejected("summary failed"))]
  /\ fs' = Cleanup(ing[i].path)
  /\ UNCHANGED <<gen, home, chat, pdfs, pdf_chunks, chat_history, qry>>

\* generateSummaryFromText in its own try, the removal of the temporary file
\* and the return.
PdfSummary(i) ==
  /\ ing[i].pc = "summary" /\ ing[i].kind = "pdf"
  /\ \E generated \in BOOLEAN :
       ing' = [ing EXCEPT ![i] =
                 Ended(Ran([ing[i] EXCEPT !.summaryFailed = ~generated],
                           <<"summary", "cleanup">>),
                       [status |-> "ok", id |-> ing[i].pdfId,
                        summary |-> IF generated THEN "summary" ELSE NULL,
                        error |-> NULL])]
  /\ fs' = Cleanup(ing[i].path)
  /\ UNCHANGED <<gen, home, chat, pdfs, pdf_chunks, chat_history, qry>>

processPdf(i) ==
  \/ PdfStart(i)
  \/ PdfWrite(i)
  \/ PdfLoad(i)
  \/ PdfInsert(i)
  \/ PdfStore(i)
  \/ PdfSummary(i)

-----------------------------------------------------------------------------
(* processLink *)

\* The outer catch of processLink: the error is wrapped and rethrown.
LinkCatch(i, c, ran, msg) ==
  ing' = [ing EXCEPT ![i] = Failed(c, ran, msg)]

\* Validation; the user id is the one of the form when the form has one.
LinkStart(i) ==
  /\ ing[i].pc = "idle"
  /\ \E url \in Urls \cup {NULL}, formUserId \in FormUserIds :
       IF url = NULL
         THEN /\ formUserId = NULL
              /\ ing' = [ing EXCEPT ![i] =
                           Ended([ing[i] EXCEPT !.kind = "link"], Rejected("No URL provided"))]
         ELSE ing' = [ing EXCEPT ![i] =
                        [ing[i] EXCEPT !.pc = "load", !.kind = "link", !.src = url,
                           !.userId = IF formUserId = NULL THEN TEMPORARY_USER_ID
                                                           ELSE formUserId]]
  /\ UNCHANGED <<gen, home, chat, fs, pdfs, pdf_chunks, chat_history, qry>>

\* await loader.load() and the check that content was loaded.
LinkLoad(i) ==
  /\ ing[i].pc = "load" /\ ing[i].kind = "link"
  /\ \E fetched \in BOOLEAN :
       LET docs == WebPages(ing[i].src)
       IN  IF ~fetched
             THEN LinkCatch(i, ing[i], <<"load">>, "Failed to process URL: load failed")
             ELSE IF Len(docs) = 0
               THEN LinkCatch(i, ing[i], <<"load", "check">>,
                      "Failed to process URL: Could not extract any content from the provided URL.")
               ELSE ing' = [ing EXCEPT ![i] =
                      Ran([ing[i] EXCEPT !.pc = "insert", !.docs = docs], <<"load", "check">>)]
  /\ UNCHANGED <<gen, home, chat, fs, pdfs, pdf_chunks, chat_history, qry>>

\* supabaseClient.from("pdfs").insert({name: url, content, user_id}).select().single()
\* and, with the id of the new row, await textSplitter.splitDocuments(
\* docs.map(... pdf_id, user_id, source_type, source ...)).
LinkInsert(i) ==
  /\ ing[i].pc = "insert" /\ ing[i].kind = "link"
  /\ \E outcome \in DbOutcomes, split \in BOOLEAN :
       IF outcome = "ok"
         THEN /\ pdfs' = pdfs \cup { [id |-> NewDocId, name |-> ing[i].src,
                                      content |-> FullText(ing[i].docs),
                                      user_id |-> ing[i].userId, by |-> i] }
              /\ IF split
                   THEN ing' = [ing EXCEPT ![i] = Ran([ing[i] EXCEPT
                          !.pc = "store", !.pdfId = NewDocId,
                          !.chunked = splitDocuments(
                             [k \in 1..Len(ing[i].docs) |->
                                [ing[i].docs[k] EXCEPT !.metadata =
                                   LinkMetadata(ing[i].docs[k], NewDocId, ing[i].userId,
                                                ing[i].src)]])],
                          <<"insert", "split">>)]
                   ELSE LinkCatch(i, [ing[i] EXCEPT !.pdfId = NewDocId],
                                  <<"insert", "split">>, "Failed to process URL: split failed")
         ELSE /\ split
              /\ LinkCatch(i, ing[i], <<"insert">>,
                           "Failed to process URL: Failed to store document")
              /\ pdfs' = pdfs
  /\ UNCHANGED <<gen, home, chat, fs, pdf_chunks, chat_history, qry>>

\* preparedDocs and await SupabaseVectorStore.fromDocuments(preparedDocs, ...);
\* then the look at the stored chunks, which is logged whatever it finds, and
\* the return, without a summary.  A request that rejects there is caught like
\* a failed store.
LinkStore(i) ==
  /\ ing[i].pc = "store" /\ ing[i].kind = "link"
  /\ \E outcome \in {"ok", "embedding failed", "insert failed", "look throws"} :
       IF outcome \in {"ok", "look throws"}
         THEN /\ pdf_chunks' = pdf_chunks \cup ChunkRows(preparedDocs(ing[i].chunked), i)
              /\ IF outcome = "ok"
                   THEN ing' = [ing EXCEPT ![i] =
                          Ended(Ran(ing[i], <<"embed", "store", "verify">>),
                                [status |-> "ok", id |-> ing[i].pdfId,
                                 summary |-> NULL, error |-> NULL])]
                   ELSE LinkCatch(i, ing[i], <<"embed", "store", "verify">>,
                          "Failed to process URL: Failed to generate embeddings")
         ELSE /\ LinkCatch(i, ing[i],
                           IF outcome = "embedding failed" THEN <<"embed">>
                                                           ELSE <<"embed", "store">>,
                           "Failed to process URL: Failed to generate embeddings")
              /\ pdf_chunks' = pdf_chunks
  /\ UNCHANGED <<gen, home, chat, fs, pdfs, chat_history, qry>>

processLink(i) ==
  \/ LinkStart(i)
  \/ LinkLoad(i)
  \/ LinkInsert(i)
  \/ LinkStore(i)

-----------------------------------------------------------------------------
(* match_pdf_chunks and the index of pdf_chunks *)

\* The row of `rows` that ORDER BY embedding <=> query_vector puts first.
Nearest(rows, query_vector) ==
  CHOOSE c \in rows : \A d \in rows :
    \/ Distance(c.embedding, query_vector) < Distance(d.embedding, query_vector)
    \/ /\ Distance(c.embedding, query_vector) = Distance(d.embedding, query_vector)
       /\ c.embedding <= d.embedding

RECURSIVE OrderByDistance(_, _, _)
OrderByDistance(rows, query_vector, limit) ==
  IF rows = {} \/ limit = 0 THEN << >>
  ELSE LET c == Nearest(rows, query_vector)
       IN  <<c>> \o OrderByDistance(rows \ {c}, query_vector, limit - 1)

\* Mutant of match_pdf_chunks: the filter compares the jsonb value, not its text.
match_pdf_chunks_arrow(rows, query_vector, pdf_id_filter, match_limit) ==
  OrderByDistance(ArrowFilter(rows, pdf_id_filter), query_vector, match_limit)

\* SELECT ... FROM pdf_chunks WHERE metadata->>'pdf_id' = pdf_id_filter
\* ORDER BY embedding <=> query_vector LIMIT match_limit
match_pdf_chunks(rows, query_vector, pdf_id_filter, match_limit) ==
  OrderByDistance(TextFilter(rows, pdf_id_filter), query_vector, match_limit)

\* CREATE INDEX ... USING ivfflat (embedding vector_cosine_ops): the vectors
\* are kept in lists, one per centroid, and a scan of the index reads the one
\* list whose centroid is nearest to the query vector.
IvfflatList(vector) == vector \div 2

\* The rows an ORDER BY embedding <=> query_vector reads: all of them in a
\* sequential scan, the probed list in a scan of the index.
Scanned(plan, query_vector) ==
  IF plan = "seqscan" THEN pdf_chunks
  ELSE {c \in pdf_chunks : IvfflatList(c.embedding) = IvfflatList(query_vector)}

Plans == {"seqscan", "ivfflat"}

-----------------------------------------------------------------------------
(* queryDocument, processDocsAndGenerateAnswer and queryPdfDocument *)

\* The forms sent to queryPdfDocument: query, pdfId and userId, each present,
\* empty or missing.
Forms ==
  { [query |-> "",     pdfId |-> "d1",             userId |-> NULL],
    [query |-> NULL,   pdfId |-> "d1",             userId |-> NULL],
    [query |-> "what", pdfId |-> "",               userId |-> NULL],
    [query |-> "what", pdfId |-> NULL,             userId |-> NULL],
    [query |-> "what", pdfId |-> "nonexistent-id", userId |-> NULL],
    [query |-> "what", pdfId |-> "d1",             userId |-> NULL],
    [query |-> "what", pdfId |-> "d2",             userId |-> NULL],
    [query |-> "what", pdfId |-> "d1",             userId |-> "mallory"] }

NoAnswer == [kind |-> "none", text |-> NULL, ctx |-> << >>]

\* "I couldn't find any information for this document in my database. ..."
NotProcessed == [kind |-> "notProcessed", text |-> NULL, ctx |-> << >>]

\* "I don't have any information about your document. ..."
NoInformation == [kind |-> "noInformation", text |-> NULL, ctx |-> << >>]

\* response.content.toString() of model.invoke(formattedPrompt): the prompt
\* holds the context and the question.
LlmAnswer(context, question) == [kind |-> "llm", text |-> question, ctx |-> context]

\* `Sorry, I encountered an error while processing your query: ${message}. ...`
Apology(message) == [kind |-> "apology", text |-> message, ctx |-> << >>]

NoOutcome == [kind |-> "none", answer |-> NoAnswer, error |-> NULL]
Returned(answer) == [kind |-> "returned", answer |-> answer, error |-> NULL]
Thrown(message) == [kind |-> "thrown", answer |-> NoAnswer, error |-> message]

\* Mutant of queryPdfDocument: the error of queryDocument is passed on.
queryPdfDocumentRethrow(outcome) == outcome

\* queryPdfDocument: what queryDocument returned, or the apology built from
\* the message of what it threw.
queryPdfDocument(outcome) ==
  IF outcome.kind = "thrown" THEN Returned(Apology(outcome.error)) ELSE outcome

\* The locals of a call, and what the call has done so far: count is the
\* count of the chunks (-1 before it is known), found the number of rows of
\* the search, handed the number of documents given to
\* processDocsAndGenerateAnswer.
IdleQuery ==
  [pc |-> "idle", query |-> NULL, pdfId |-> NULL, userId |-> NULL,
   count |-> -1, embedCalls |-> 0, llmCalls |-> 0, chatWrites |-> 0,
   found |-> -1, handed |-> -1, docs |-> << >>, from |-> "none",
   answer |-> NoAnswer, logged |-> "none",
   queryDocument |-> NoOutcome, result |-> NoOutcome]

\* The end of a queryDocument call and of the queryPdfDocument call around it.
Finish(c, outcome) ==
  [c EXCEPT !.pc = "done", !.docs = << >>, !.queryDocument = outcome,
            !.result = queryPdfDocument(outcome)]

\* The documents made of the rows a request returned.
Documents(rows) ==
  [k \in 1..Len(rows) |-> [pageContent |-> rows[k].content, metadata |-> rows[k].metadata]]

\* JavaScript !value for a field of a form: true of the empty string and of
\* the null of a missing field.
Not(value) == value \in {"", NULL}

\* Mutant of QueryStart: the fields are not validated.
QueryStartNoValidation(q) ==
  /\ qry[q].pc \in {"idle", "done"}
  /\ Len(chat_history) < MaxChat
  /\ \E formData \in Forms :
       qry' = [qry EXCEPT ![q] =
         [IdleQuery EXCEPT !.pc = "count", !.query = formData.query,
            !.pdfId = formData.pdfId,
            !.userId = IF formData.userId = NULL THEN TEMPORARY_USER_ID
                                                 ELSE formData.userId]]
  /\ UNCHANGED <<gen, home, chat, fs, pdfs, pdf_chunks, chat_history, ing>>

\* The inputs of the form and their validation.
QueryStart(q) ==
  /\ qry[q].pc \in {"idle", "done"}
  /\ Len(chat_history) < MaxChat
  /\ \E formData \in Forms :
       LET c == [IdleQuery EXCEPT !.query = formData.query, !.pdfId = formData.pdfId,
                   !.userId = IF formData.userId = NULL THEN TEMPORARY_USER_ID
                                                        ELSE formData.userId]
       IN  qry' = [qry EXCEPT ![q] =
             IF Not(formData.query) THEN Finish(c, Thrown("No query provided"))
             ELSE IF Not(formData.pdfId) THEN Finish(c, Thrown("No content ID provided"))
             ELSE [c EXCEPT !.pc = "count"]]
  /\ UNCHANGED <<gen, home, chat, fs, pdfs, pdf_chunks, chat_history, ing>>

\* Mutant of QueryCount: a count of zero goes on to the search.
QueryCountNoShortCircuit(q) ==
  /\ qry[q].pc = "count"
  /\ qry' = [qry EXCEPT ![q] = [qry[q] EXCEPT !.pc = "embed",
               !.count = Cardinality(TextFilter(pdf_chunks, qry[q].pdfId))]]
  /\ UNCHANGED <<gen, home, chat, fs, pdfs, pdf_chunks, chat_history, ing>>

\* The count of the chunks of the document and the return when it is zero.
QueryCount(q) ==
  /\ qry[q].pc = "count"
  /\ \E outcome \in DbOutcomes :
       LET count == Cardinality(TextFilter(pdf_chunks, qry[q].pdfId))
       IN  qry' = [qry EXCEPT ![q] =
             IF outcome = "error"
               THEN Finish(qry[q], Thrown("Database error when checking for chunks"))
             ELSE IF outcome = "throws"
               THEN Finish(qry[q], Thrown("count failed"))
             ELSE IF count = 0
               THEN Finish([qry[q] EXCEPT !.count = 0], Returned(NotProcessed))
               ELSE [qry[q] EXCEPT !.pc = "embed", !.count = count]]
  /\ UNCHANGED <<gen, home, chat, fs, pdfs, pdf_chunks, chat_history, ing>>

\* await embeddings.embedQuery(query), then the two counts before the search:
\* they are logged and nothing else, unless a request rejects.
QueryEmbed(q) ==
  /\ qry[q].pc = "embed"
  /\ \E outcome \in {"ok", "embedding failed", "count throws"} :
       LET c == [qry[q] EXCEPT !.embedCalls = @ + 1]
       IN  qry' = [qry EXCEPT ![q] =
             IF outcome = "ok" THEN [c EXCEPT !.pc = "search"]
                               ELSE Finish(c, Thrown(outcome))]
  /\ UNCHANGED <<gen, home, chat, fs, pdfs, pdf_chunks, chat_history, ing>>

\* Mutant of QuerySearch: the fallback scan runs whatever the search returned.
QuerySearchThenFallback(q) ==
  /\ qry[q].pc = "search"
  /\ \E plan \in Plans :
       LET query_vector == embedQuery(qry[q].query)
           retrievedDocs == Documents(match_pdf_chunks(
              Scanned(plan, query_vector), query_vector, qry[q].pdfId, 5))
       IN  qry' = [qry EXCEPT ![q] =
             [qry[q] EXCEPT !.pc = "fallback", !.found = Len(retrievedDocs)]]
  /\ UNCHANGED <<gen, home, chat, fs, pdfs, pdf_chunks, chat_history, ing>>

\* supabaseClient.rpc("match_pdf_chunks", {query_vector, pdf_id_filter, match_limit: 5})
QuerySearch(q) ==
  /\ qry[q].pc = "search"
  /\ \E outcome \in DbOutcomes, plan \in Plans :
       LET query_vector == embedQuery(qry[q].query)
           retrievedDocs == Documents(match_pdf_chunks(
              Scanned(plan, query_vector), query_vector, qry[q].pdfId, 5))
       IN  qry' = [qry EXCEPT ![q] =
             IF outcome = "error" THEN Finish(qry[q], Thrown("Vector search failed"))
             ELSE IF outcome = "throws" THEN Finish(qry[q], Thrown("search failed"))
             ELSE IF Len(retrievedDocs) = 0
               THEN [qry[q] EXCEPT !.pc = "fallback", !.found = 0]
               ELSE [qry[q] EXCEPT !.pc = "generate", !.found = Len(retrievedDocs),
                       !.handed = Len(retrievedDocs), !.docs = retrievedDocs,
                       !.from = "search"]]
  /\ UNCHANGED <<gen, home, chat, fs, pdfs, pdf_chunks, chat_history, ing>>

\* Mutant of Limit3: the request has no limit.
LimitNone(rows) == {rows}

\* .limit(3) of a request without an order: three of the rows, or all of them
\* when there are fewer.
Limit3(rows) ==
  {S \in SUBSET rows : Cardinality(S) = (IF Cardinality(rows) < 3 THEN Cardinality(rows) ELSE 3)}

\* The fallback scan with the filter metadata->pdf_id.
QueryFallback(q) ==
  /\ qry[q].pc = "fallback"
  /\ \E outcome \in DbOutcomes, rows \in Limit3(ArrowFilter(pdf_chunks, qry[q].pdfId)) :
       qry' = [qry EXCEPT ![q] =
         IF outcome = "throws" THEN Finish(qry[q], Thrown("fallback failed"))
         ELSE IF outcome = "error" \/ JsonArrowError(qry[q].pdfId)
           THEN [qry[q] EXCEPT !.pc = "alternative"]
         ELSE IF rows # {}
           THEN [qry[q] EXCEPT !.pc = "generate", !.handed = Cardinality(rows),
                   !.from = "fallback", !.docs = Documents(OrderByDistance(rows, 0, 3))]
           ELSE [qry[q] EXCEPT !.pc = "generate", !.handed = 0]]
  /\ UNCHANGED <<gen, home, chat, fs, pdfs, pdf_chunks, chat_history, ing>>

\* Mutant of QueryAlternativeFallback: an error of the request is thrown.
QueryAlternativeFallbackFatal(q) ==
  /\ qry[q].pc = "alternative"
  /\ \E outcome \in DbOutcomes, rows \in Limit3(TextFilter(pdf_chunks, qry[q].pdfId)) :
       qry' = [qry EXCEPT ![q] =
         IF outcome = "throws" THEN Finish(qry[q], Thrown("fallback failed"))
         ELSE IF outcome = "error" THEN Finish(qry[q], Thrown("Fallback scan failed"))
         ELSE IF rows # {}
           THEN [qry[q] EXCEPT !.pc = "generate", !.handed = Cardinality(rows),
                   !.from = "fallback", !.docs = Documents(OrderByDistance(rows, 0, 3))]
           ELSE [qry[q] EXCEPT !.pc = "generate", !.handed = 0]]
  /\ UNCHANGED <<gen, home, chat, fs, pdfs, pdf_chunks, chat_history, ing>>

\* Mutant of QueryAlternativeFallback: the rows found get their column pdf_id
\* filled in.
QueryAlternativeFallbackBackfill(q) ==
  /\ qry[q].pc = "alternative"
  /\ LET rows == TextFilter(pdf_chunks, qry[q].pdfId)
     IN  /\ pdf_chunks' = (pdf_chunks \ rows) \cup
                            {[c EXCEPT !.pdf_id = qry[q].pdfId] : c \in rows}
         /\ qry' = [qry EXCEPT ![q] = [qry[q] EXCEPT !.pc = "generate", !.handed = 0]]
  /\ UNCHANGED <<gen, home, chat, fs, pdfs, chat_history, ing>>

\* The fallback scan with the filter metadata->>pdf_id, after the first failed.
QueryAlternativeFallback(q) ==
  /\ qry[q].pc = "alternative"
  /\ \E outcome \in DbOutcomes, rows \in Limit3(TextFilter(pdf_chunks, qry[q].pdfId)) :
       qry' = [qry EXCEPT ![q] =
         IF outcome = "throws" THEN Finish(qry[q], Thrown("fallback failed"))
         ELSE IF outcome = "ok" /\ rows # {}
           THEN [qry[q] EXCEPT !.pc = "generate", !.handed = Cardinality(rows),
                   !.from = "fallback", !.docs = Documents(OrderByDistance(rows, 0, 3))]
           ELSE [qry[q] EXCEPT !.pc = "generate", !.handed = 0]]
  /\ UNCHANGED <<gen, home, chat, fs, pdfs, pdf_chunks, chat_history, ing>>

\* Mutant of QueryGenerate: a failure of the model is swallowed and the fixed
\* answer is given in its place.
QueryGenerateSwallow(q) ==
  /\ qry[q].pc = "generate"
  /\ IF Len(qry[q].docs) = 0
       THEN qry' = [qry EXCEPT ![q] = [qry[q] EXCEPT !.pc = "log", !.answer = NoInformation]]
       ELSE \E invoked \in BOOLEAN :
              LET c == [qry[q] EXCEPT !.llmCalls = @ + 1]
                  context == [k \in 1..Len(c.docs) |-> c.docs[k].pageContent]
              IN  qry' = [qry EXCEPT ![q] =
                    [c EXCEPT !.pc = "log",
                              !.answer = IF invoked THEN LlmAnswer(context, c.query)
                                                    ELSE NoInformation]]
  /\ UNCHANGED <<gen, home, chat, fs, pdfs, pdf_chunks, chat_history, ing>>

\* Mutant of QueryGenerate: the model is invoked whatever the documents are.
QueryGenerateAlways(q) ==
  /\ qry[q].pc = "generate"
  /\ LET c == [qry[q] EXCEPT !.llmCalls = @ + 1]
         context == [k \in 1..Len(c.docs) |-> c.docs[k].pageContent]
     IN  qry' = [qry EXCEPT ![q] =
           [c EXCEPT !.pc = "log", !.answer = LlmAnswer(context, c.query)]]
  /\ UNCHANGED <<gen, home, chat, fs, pdfs, pdf_chunks, chat_history, ing>>

\* processDocsAndGenerateAnswer up to the answer: the fixed answer for no
\* document, else await model.invoke(formattedPrompt).
QueryGenerate(q) ==
  /\ qry[q].pc = "generate"
  /\ IF Len(qry[q].docs) = 0
       THEN qry' = [qry EXCEPT ![q] = [qry[q] EXCEPT !.pc = "log", !.answer = NoInformation]]
       ELSE \E invoked \in BOOLEAN :
              LET c == [qry[q] EXCEPT !.llmCalls = @ + 1]
                  context == [k \in 1..Len(c.docs) |-> c.docs[k].pageContent]
              IN  qry' = [qry EXCEPT ![q] =
                    IF invoked
                      THEN [c EXCEPT !.pc = "log", !.answer = LlmAnswer(context, c.query)]
                      ELSE Finish(c, Thrown("generation failed"))]
  /\ UNCHANGED <<gen, home, chat, fs, pdfs, pdf_chunks, chat_history, ing>>

\* Mutant of QueryLog: the row of the call takes the place of the rows before it.
QueryLogOverwrite(q) ==
  /\ qry[q].pc = "log"
  /\ LET row == [pdf_id |-> qry[q].pdfId, user_id |-> qry[q].userId,
                 user_message |-> qry[q].query, assistant_message |-> qry[q].answer]
     IN  /\ chat_history' = <<row>>
         /\ qry' = [qry EXCEPT ![q] =
              Finish([qry[q] EXCEPT !.logged = "ok", !.chatWrites = @ + 1],
                     Returned(qry[q].answer))]
  /\ UNCHANGED <<gen, home, chat, fs, pdfs, pdf_chunks, ing>>

\* await supabaseClient.from("chat_history").insert({...}) and the return of
\* the answer; the result of the insert is not looked at.  The row needs its
\* pdf_id to be the id of a row of pdfs.
QueryLog(q) ==
  /\ qry[q].pc = "log"
  /\ \E outcome \in DbOutcomes :
       LET inserted == outcome = "ok" /\ \E d \in pdfs : d.id = qry[q].pdfId
           row == [pdf_id |-> qry[q].pdfId, user_id |-> qry[q].userId,
                   user_message |-> qry[q].query, assistant_message |-> qry[q].answer]
       IN  /\ chat_history' = IF inserted THEN Append(chat_history, row) ELSE chat_history
           /\ qry' = [qry EXCEPT ![q] =
                IF outcome = "throws"
                  THEN Finish([qry[q] EXCEPT !.logged = "throws"], Thrown("insert failed"))
                  ELSE Finish([qry[q] EXCEPT
                                 !.logged = IF inserted THEN "ok" ELSE "error",
                                 !.chatWrites = IF inserted THEN @ + 1 ELSE @],
                              Returned(qry[q].answer))]
  /\ UNCHANGED <<gen, home, chat, fs, pdfs, pdf_chunks, ing>>

queryDocument(q) ==
  \/ QueryStart(q)
  \/ QueryCount(q)
  \/ QueryEmbed(q)
  \/ QuerySearch(q)
  \/ QueryFallback(q)
  \/ QueryAlternativeFallback(q)
  \/ QueryGenerate(q)
  \/ QueryLog(q)

\* fetchUserPdfs: supabaseClient.from("pdfs").select("id, name, created_at")
\* .eq("user_id", TEMPORARY_USER_ID), as the list of the ids and names.
fetchUserPdfs ==
  { [id |-> d.id, name |-> d.name] : d \in {r \in pdfs : r.user_id = TEMPORARY_USER_ID} }

-----------------------------------------------------------------------------
(* The Home component *)

\* The files dropped on FileUpload and the texts typed into the URL input.
HomeFiles == {"A", "E"}
HomeUrls == {"u1", "u2", ""}

\* useState(...) of Home; pending holds the server actions whose promise a
\* handler of the page awaits.
InitHome ==
  [file |-> NULL, url |-> NULL, summary |-> NULL, isProcessing |-> FALSE,
   contentId |-> NULL, selectedContentName |-> NULL, contentType |-> "pdf",
   pending |-> {}]

\* <Tabs defaultValue="pdf" onValueChange={(value) => setContentType(value)}>
setContentType(value) ==
  /\ home.contentType # value
  /\ home' = [home EXCEPT !.contentType = value]
  /\ UNCHANGED <<fs, pdfs, pdf_chunks, chat_history, ing, qry, gen, chat>>

\* FileUpload sits in the PDF tab.
handleFileChange(selectedFile) ==
  /\ home.contentType = "pdf"
  /\ home' = [home EXCEPT !.file = selectedFile, !.summary = NULL,
                          !.contentId = NULL, !.selectedContentName = selectedFile,
                          !.url = NULL]
  /\ UNCHANGED <<fs, pdfs, pdf_chunks, chat_history, ing, qry, gen, chat>>

\* The URL input sits in the link tab.
handleUrlChange(value) ==
  /\ home.contentType = "link"
  /\ home' = [home EXCEPT !.url = value, !.summary = NULL, !.contentId = NULL,
                          !.file = NULL]
  /\ UNCHANGED <<fs, pdfs, pdf_chunks, chat_history, ing, qry, gen, chat>>

\* PdfLibrary sits in the PDF tab and lists what fetchUserPdfs returned.
handleSelectPdf(id, name) ==
  /\ home.contentType = "pdf"
  /\ [id |-> id, name |-> name] \in fetchUserPdfs
  /\ home' = [home EXCEPT !.contentId = id, !.selectedContentName = name,
                          !.contentType = "pdf", !.file = NULL, !.url = NULL]
  /\ UNCHANGED <<fs, pdfs, pdf_chunks, chat_history, ing, qry, gen, chat>>

\* handleProcessPDF up to await processPdf(formData): its button is rendered
\* while contentType is "pdf", a file is chosen and contentId is null, and is
\* disabled only by !file.  The call starts as in PdfStart.
handleProcessPDF(i) ==
  /\ home.contentType = "pdf" /\ home.file # NULL /\ home.contentId = NULL
  /\ ing[i].pc = "idle"
  /\ home' = [home EXCEPT !.isProcessing = TRUE, !.pending = @ \cup {i}]
  /\ \E now \in Paths :
       ing' = [ing EXCEPT ![i] =
                 [ing[i] EXCEPT !.pc = "buffer", !.kind = "pdf", !.src = home.file,
                                !.userId = TEMPORARY_USER_ID, !.path = now]]
  /\ UNCHANGED <<fs, pdfs, pdf_chunks, chat_history, qry, gen, chat>>

\* handleProcessPDF after the await.
handleProcessPDFSettled(i) ==
  /\ i \in home.pending /\ ing[i].kind = "pdf" /\ ing[i].pc = "done"
  /\ home' = IF ing[i].result.status = "ok"
               THEN [home EXCEPT !.contentId = ing[i].result.id,
                        !.summary = IF ing[i].result.summary # NULL
                                      THEN ing[i].result.summary ELSE @,
                        !.isProcessing = FALSE, !.pending = @ \ {i}]
               ELSE [home EXCEPT !.isProcessing = FALSE, !.pending = @ \ {i}]
  /\ UNCHANGED <<fs, pdfs, pdf_chunks, chat_history, ing, qry, gen, chat>>

\* handleProcessLink up to await processLink(formData): both its buttons
\* are disabled by !url || isProcessing.  The call starts as in LinkStart.
handleProcessLink(i) ==
  /\ home.contentType = "link" /\ ~Not(home.url) /\ ~home.isProcessing
  /\ ing[i].pc = "idle"
  /\ home' = [home EXCEPT !.isProcessing = TRUE, !.pending = @ \cup {i}]
  /\ ing' = [ing EXCEPT ![i] =
               [ing[i] EXCEPT !.pc = "load", !.kind = "link", !.src = home.url,
                              !.userId = TEMPORARY_USER_ID]]
  /\ UNCHANGED <<fs, pdfs, pdf_chunks, chat_history, qry, gen, chat>>

\* handleProcessLink after the await: url is the URL of the render the
\* handler was made in.
handleProcessLinkSettled(i) ==
  /\ i \in home.pending /\ ing[i].kind = "link" /\ ing[i].pc = "done"
  /\ home' = IF ing[i].result.status = "ok"
               THEN [home EXCEPT !.contentId = ing[i].result.id,
                        !.selectedContentName = ing[i].src,
                        !.summary = IF ing[i].result.summary # NULL
                                      THEN ing[i].result.summary ELSE @,
                        !.isProcessing = FALSE, !.pending = @ \ {i}]
               ELSE [home EXCEPT !.isProcessing = FALSE, !.pending = @ \ {i}]
  /\ UNCHANGED <<fs, pdfs, pdf_chunks, chat_history, ing, qry, gen, chat>>

\* What the user does on the page, and what the page does when a request
\* comes back.
Home ==
  \/ \E value \in {"pdf", "link"} : setContentType(value)
  \/ \E selectedFile \in HomeFiles \cup {NULL} : handleFileChange(selectedFile)
  \/ \E value \in HomeUrls : handleUrlChange(value)
  \/ \E entry \in fetchUserPdfs : handleSelectPdf(entry.id, entry.name)
  \/ handleProcessPDF("p1")
  \/ handleProcessPDFSettled("p1")
  \/ handleProcessLink("l1")
  \/ handleProcessLinkSettled("l1")

-----------------------------------------------------------------------------
(* The ChatInterface component *)

\* The handleSendMessage calls of one mounted component.
SendCalls == {"s1", "s2"}

\* What the user types into the textarea, and input.trim() of it.
ChatInputs == {"", " ", "hi"}
trim(input) == IF input = " " THEN "" ELSE input

\* What the promise of queryPdfDocument(formData) resolves with: an answer
\* of queryDocument or the apology made of what it threw.
ChatAnswers ==
  { queryPdfDocument(outcome).answer :
      outcome \in {Returned(NoInformation), Thrown("generation failed")} }

\* A message of the chat; of is the handleSendMessage call it belongs to.
Message(role, content, of) == [role |-> role, content |-> content, of |-> of]
Greeting == [kind |-> "greeting", text |-> NULL, ctx |-> << >>]
Question(text) == [kind |-> "question", text |-> text, ctx |-> << >>]
\* `Sorry, I encountered an error: ${error.message}. ...`
ErrorMessage(message) == [kind |-> "error", text |-> message, ctx |-> << >>]
\* "Sorry, I don't have access to any document to query. ..."
NoDocument == [kind |-> "noDocument", text |-> NULL, ctx |-> << >>]

\* A handleSendMessage call: server is the promise of queryPdfDocument,
\* timer the setTimeout of 10000 ms, first the one that settled Promise.race.
IdleSend == [pc |-> "idle", server |-> "none", timer |-> "none", first |-> "none"]

\* useState(...) of ChatInterface and its prop pdfId: Home renders the
\* component only with a contentId.
InitChat ==
  [messages |-> << Message("assistant", Greeting, NULL) >>, input |-> "",
   isLoading |-> FALSE, pdfId |-> "d1", send |-> [s \in SendCalls |-> IdleSend]]

\* onChange={(e) => setInput(e.target.value)}
setInput(value) ==
  /\ chat.input # value
  /\ chat' = [chat EXCEPT !.input = value]
  /\ UNCHANGED <<fs, pdfs, pdf_chunks, chat_history, ing, qry, gen, home>>

\* handleSendMessage up to await Promise.race([...]): the Send button is
\* disabled by !input.trim() || isLoading, the Enter key of the textarea is
\* not.
handleSendMessage(s, key) ==
  /\ key = "click" => ~(trim(chat.input) = "" \/ chat.isLoading)
  /\ trim(chat.input) # ""
  /\ chat.send[s].pc = "idle"
  /\ chat' =
       IF Not(chat.pdfId)
         THEN [chat EXCEPT !.messages = Append(@, Message("assistant", NoDocument, NULL))]
         ELSE [chat EXCEPT
                 !.messages = Append(@, Message("user", Question(trim(chat.input)), s)),
                 !.input = "", !.isLoading = TRUE,
                 !.send[s] = [pc |-> "racing", server |-> "pending",
                              timer |-> "armed", first |-> "none"]]
  /\ UNCHANGED <<fs, pdfs, pdf_chunks, chat_history, ing, qry, gen, home>>

\* Mutant of handleSendMessageSettled: the message is added whether or not
\* Promise.race is already settled.
handleSendMessageSettledTwice(c, s, by, content) ==
  [c EXCEPT !.messages = Append(@, Message("assistant", content, s)),
            !.isLoading = FALSE,
            !.send[s].pc = "done",
            !.send[s].first = IF c.send[s].pc = "racing" THEN by ELSE @]

\* handleSendMessage after the await, which goes on when the first of the
\* two promises settles and never again: the message of the answer or of the
\* error, and setIsLoading(false) in the finally.
handleSendMessageSettled(c, s, by, content) ==
  IF c.send[s].pc = "racing"
    THEN [c EXCEPT !.messages = Append(@, Message("assistant", content, s)),
                   !.isLoading = FALSE,
                   !.send[s].pc = "done", !.send[s].first = by]
    ELSE c

\* The promise of queryPdfDocument(formData) resolves with an answer, or
\* rejects when the request to the server fails.
queryPdfDocumentSettled(s) ==
  /\ chat.send[s].server = "pending"
  /\ \/ \E answer \in ChatAnswers :
          chat' = handleSendMessageSettled(
                    [chat EXCEPT !.send[s].server = "resolved"], s, "server", answer)
     \/ chat' = handleSendMessageSettled(
                  [chat EXCEPT !.send[s].server = "rejected"], s, "server",
                  ErrorMessage("fetch failed"))
  /\ UNCHANGED <<fs, pdfs, pdf_chunks, chat_history, ing, qry, gen, home>>

\* The callback of setTimeout(..., 10000) rejects timeoutPromise.
timeoutFired(s) ==
  /\ chat.send[s].timer = "armed"
  /\ chat' = handleSendMessageSettled(
               [chat EXCEPT !.send[s].timer = "fired"], s, "timeout",
               ErrorMessage("Request to server timed out"))
  /\ UNCHANGED <<fs, pdfs, pdf_chunks, chat_history, ing, qry, gen, home>>

ChatInterface ==
  \/ \E value \in ChatInputs : setInput(value)
  \/ \E s \in SendCalls, key \in {"click", "enter"} : handleSendMessage(s, key)
  \/ \E s \in SendCalls : queryPdfDocumentSettled(s)
  \/ \E s \in SendCalls : timeoutFired(s)

-----------------------------------------------------------------------------
(* generateSummary *)

SummaryCalls == {"g1", "g2"}

\* The locals of a generateSummary call; exit names the return it left by.
IdleSummary ==
  [pc |-> "idle", file |-> NULL, path |-> 0, wrote |-> FALSE, exit |-> "none"]

\* A generateSummary call that ended.
SummaryEnded(c, exit) == [c EXCEPT !.pc = "done", !.exit = exit]

\* The catch block of generateSummary: remove the temporary file, return
\* `Failed to generate summary: ...`.
SummaryCatch(g, exit) ==
  /\ fs' = Cleanup(gen[g].path)
  /\ gen' = [gen EXCEPT ![g] = SummaryEnded(gen[g], exit)]

\* formData.get("file"), the check of it and the name of the temporary file.
SummaryStart(g) ==
  /\ gen[g].pc = "idle"
  /\ \E file \in (Uploads \ {"B"}) \cup {NULL}, now \in Paths :
       gen' = [gen EXCEPT ![g] =
                 IF file = NULL
                   THEN SummaryEnded(gen[g], "No file provided")
                   ELSE [gen[g] EXCEPT !.pc = "buffer", !.file = file, !.path = now]]
  /\ UNCHANGED <<fs, pdfs, pdf_chunks, chat_history, ing, qry, home, chat>>

\* await file.arrayBuffer(); fs.writeFileSync(tempFilePath, buffer)
SummaryWrite(g) ==
  /\ gen[g].pc = "buffer"
  /\ fs' = [fs EXCEPT ![gen[g].path] = gen[g].file]
  /\ gen' = [gen EXCEPT ![g] = [gen[g] EXCEPT !.pc = "load", !.wrote = TRUE]]
  /\ UNCHANGED <<pdfs, pdf_chunks, chat_history, ing, qry, home, chat>>

\* await loader.load(), the return on docs.length === 0, await
\* textSplitter.splitDocuments(docs) and the return on a missing
\* GROQ_API_KEY: neither return removes the file.
SummaryLoad(g) ==
  /\ gen[g].pc = "load"
  /\ \E parsed \in BOOLEAN, apiKey \in BOOLEAN :
       LET content == fs[gen[g].path]
           docs == PdfPages(content, gen[g].path)
       IN  IF content = NoFile \/ ~parsed
             THEN SummaryCatch(g, "loader error")
             ELSE /\ fs' = fs
                  /\ gen' = [gen EXCEPT ![g] =
                       IF Len(docs) = 0
                         THEN SummaryEnded(gen[g], "zero pages")
                         ELSE IF ~apiKey
                           THEN SummaryEnded(gen[g], "no api key")
                           ELSE [gen[g] EXCEPT !.pc = "invoke"]]
  /\ UNCHANGED <<pdfs, pdf_chunks, chat_history, ing, qry, home, chat>>

\* await chain.invoke({text}), then the removal of the file and the return
\* of the summary, or the catch block.
SummaryInvoke(g) ==
  /\ gen[g].pc = "invoke"
  /\ \E generated \in BOOLEAN :
       SummaryCatch(g, IF generated THEN "summary" ELSE "summarization error")
  /\ UNCHANGED <<pdfs, pdf_chunks, chat_history, ing, qry, home, chat>>

generateSummary(g) ==
  \/ SummaryStart(g)
  \/ SummaryWrite(g)
  \/ SummaryLoad(g)
  \/ SummaryInvoke(g)

-----------------------------------------------------------------------------
(* The system *)

Init ==
  /\ fs = [p \in Paths |-> NoFile]
  /\ pdfs = {}
  /\ pdf_chunks = {}
  /\ chat_history = << >>
  /\ ing = [i \in IngestCalls |-> IdleCall]
  /\ qry = [q \in QueryCalls |-> IdleQuery]
  /\ gen = [g \in SummaryCalls |-> IdleSummary]
  /\ home = InitHome
  /\ chat = InitChat

\* Two uploads running beside each other.
NextUploads == processPdf("p1") \/ processPdf("p2")

SpecUploads == Init /\ [][NextUploads]_vars

\* One upload, one link and one chat, each running beside the others.
Next ==
  \/ processPdf("p1")
  \/ processLink("l1")
  \/ queryDocument("q1")

Spec == Init /\ [][Next]_vars

\* DELETE FROM pdfs WHERE id = ...: the program has no such request, the owner
\* of the database has.  The foreign keys pdf_chunks.pdf_id and
\* chat_history.pdf_id, both ON DELETE CASCADE, take with the row the rows
\* whose column pdf_id holds its id.
DeleteDocument(id) ==
  /\ \E d \in pdfs : d.id = id
  /\ pdfs' = {d \in pdfs : d.id # id}
  /\ pdf_chunks' = {c \in pdf_chunks : c.pdf_id # id}
  /\ chat_history' = SelectSeq(chat_history, LAMBDA row : row.pdf_id # id)
  /\ UNCHANGED <<gen, home, chat, fs, ing, qry>>

\* Two queries running beside each other and beside the ingestion of a link.
NextQueries == processLink("l1") \/ \E q \in QueryCalls : queryDocument(q)

SpecQueries == Init /\ [][NextQueries]_vars

\* The state a processLink call that went through leaves behind: its
\* document, its chunks and its result.
InitLong ==
  LET url == "u1"
      docs == WebPages(url)
      chunkedDocs == splitDocuments(
         [k \in 1..Len(docs) |->
            [docs[k] EXCEPT !.metadata = LinkMetadata(docs[k], "d1", TEMPORARY_USER_ID, url)]])
  IN  /\ fs = [p \in Paths |-> NoFile]
      /\ pdfs = { [id |-> "d1", name |-> url, content |-> FullText(docs),
                   user_id |-> TEMPORARY_USER_ID, by |-> "l1"] }
      /\ pdf_chunks = ChunkRows(preparedDocs(chunkedDocs), "l1")
      /\ chat_history = << >>
      /\ ing = [i \in IngestCalls |->
                  IF i = "l1"
                    THEN Ended(Ran([IdleCall EXCEPT !.kind = "link", !.src = url,
                                      !.userId = TEMPORARY_USER_ID, !.pdfId = "d1"],
                                   <<"load", "check", "insert", "split",
                                     "embed", "store", "verify">>),
                               [status |-> "ok", id |-> "d1", summary |-> NULL,
                                error |-> NULL])
                    ELSE IdleCall]
      /\ qry = [q \in QueryCalls |-> IdleQuery]
      /\ gen = [g \in SummaryCalls |-> IdleSummary]
      /\ home = InitHome
      /\ chat = InitChat

\* The upload of a long document into the database that holds the link, and
\* a chat.
NextLong == processPdf("p3") \/ queryDocument("q1")

SpecLong == InitLong /\ [][NextLong]_vars

\* A link is ingested and queried, and its document may be deleted.
NextDelete ==
  \/ processLink("l1")
  \/ queryDocument("q1")
  \/ \E k \in 1..Len(DocIds) : DeleteDocument(DocIds[k])

SpecDelete == Init /\ [][NextDelete]_vars

\* The page, and the two server actions it calls running behind it.
NextHome == Home \/ processPdf("p1") \/ processLink("l1")

SpecHome == Init /\ [][NextHome]_vars

\* The chat of one document.
NextChat == ChatInterface

SpecChat == Init /\ [][NextChat]_vars

\* The same chat with its timers: a timer set by setTimeout fires.
SpecChatFair == SpecChat /\ \A s \in SendCalls : WF_vars(timeoutFired(s))

\* Two summaries of uploads running beside each other.
NextSummary == generateSummary("g1") \/ generateSummary("g2")

SpecSummary == Init /\ [][NextSummary]_vars

-----------------------------------------------------------------------------
(* The claims *)

\* C1: a queryDocument call with a query and a document id whose count of
\* chunks is zero ends at once with the fixed "not processed" answer, and has
\* called neither the embedding client nor the model and written no row of
\* chat_history.
C1_ZeroChunkShortCircuit ==
  \A q \in QueryCalls :
    qry[q].count = 0 =>
      /\ qry[q].pc = "done"
      /\ qry[q].queryDocument = Returned(NotProcessed)
      /\ qry[q].result = Returned(NotProcessed)
      /\ qry[q].embedCalls = 0
      /\ qry[q].llmCalls = 0
      /\ qry[q].chatWrites = 0

\* A query of an id that was never ingested found no chunk of it among the
\* chunks of the other documents.
C1_Witness ==
  /\ pdf_chunks # {}
  /\ qry["q1"].pc = "done"
  /\ qry["q1"].pdfId = "nonexistent-id"
  /\ qry["q1"].count = 0
  /\ qry["q1"].result = Returned(NotProcessed)

\* C3: when processDocsAndGenerateAnswer is given no document, the model is
\* not invoked and the answer is the fixed "no information" answer.
C3_EmptyContextShortCircuit ==
  \A q \in QueryCalls :
    qry[q].handed = 0 =>
      /\ qry[q].llmCalls = 0
      /\ qry[q].pc \in {"log", "done"} => qry[q].answer = NoInformation

\* A query was answered with the fixed answer after no document was handed on.
C3_Witness ==
  /\ qry["q1"].pc = "done"
  /\ qry["q1"].handed = 0
  /\ qry["q1"].result = Returned(NoInformation)

\* C6: queryPdfDocument always resolves to an answer, and to an apology when
\* queryDocument threw, whatever step of it failed.
C6_NeverThrows ==
  \A q \in QueryCalls :
    qry[q].pc = "done" =>
      /\ qry[q].result.kind = "returned"
      /\ qry[q].queryDocument.kind = "thrown" => qry[q].result.answer.kind = "apology"

\* The model failed while answering, and the caller got an apology.
C6_Witness ==
  /\ qry["q1"].pc = "done"
  /\ qry["q1"].llmCalls = 1
  /\ qry["q1"].queryDocument = Thrown("generation failed")
  /\ qry["q1"].result.answer.kind = "apology"

\* C4: when a processPdf call that wrote its temporary file ends, by its
\* return or by any of its errors, the file is not there any more.
C4_TempFileCleanup ==
  [][\A i \in PdfCalls :
       (ing[i].pc # "done" /\ ing'[i].pc = "done" /\ ing[i].wrote)
         => fs'[ing[i].path] = NoFile]_vars

\* An upload wrote its file, failed after it, and left no file behind.
C4_Witness ==
  \E i \in PdfCalls :
    /\ ing[i].pc = "done"
    /\ ing[i].wrote
    /\ ing[i].result.status = "rejected"
    /\ ing[i].pdfId # NULL
    /\ fs[ing[i].path] = NoFile

\* C5: a processPdf call whose summary generation threw, after every step
\* before it succeeded, returns the id of the document it inserted and a
\* null summary.
C5_NonFatalSummaryFailure ==
  \A i \in PdfCalls :
    ing[i].summaryFailed =>
      /\ ing[i].pc = "done"
      /\ ing[i].result.status = "ok"
      /\ ing[i].result.summary = NULL
      /\ ing[i].result.id = ing[i].pdfId
      /\ \E d \in pdfs : d.id = ing[i].result.id /\ d.by = i

\* An upload ended with a document, its chunks and no summary.
C5_Witness ==
  \E i \in PdfCalls :
    /\ ing[i].summaryFailed
    /\ ing[i].pc = "done"
    /\ ing[i].result.summary = NULL
    /\ \E c \in pdf_chunks : c.by = i

\* C8: every stored chunk has string values only in its metadata, and its
\* metadata.pdf_id is, as a string, the id of exactly one row of pdfs, the
\* one the call that stored the chunk inserted.
C8_ChunkMetadata ==
  \A c \in pdf_chunks :
    /\ \A k \in DOMAIN c.metadata : c.metadata[k].t = "str"
    /\ "pdf_id" \in DOMAIN c.metadata
    /\ Cardinality({d \in pdfs : Str(d.id) = c.metadata["pdf_id"]}) = 1
    /\ \A d \in pdfs : Str(d.id) = c.metadata["pdf_id"] => d.by = c.by

\* Chunks of an upload and chunks of a link are stored side by side.
C8_Witness ==
  /\ \E c \in pdf_chunks : c.by = "p1"
  /\ \E c \in pdf_chunks : c.by = "l1"
  /\ Cardinality(pdfs) = 2

\* C2: when the count of the chunks of the document is above zero and the
\* similarity search returned no row, the list handed to
\* processDocsAndGenerateAnswer has at least one chunk, from the fallback scan.
C2_FallbackGuarantee ==
  \A q \in QueryCalls :
    (qry[q].count > 0 /\ qry[q].found = 0 /\ qry[q].handed >= 0)
      => (qry[q].handed >= 1 /\ qry[q].from = "fallback")

\* C7: when the insert into chat_history failed after the answer was
\* generated, by an error it returned or by rejecting, the caller still gets
\* the generated answer.
C7_BestEffortLogging ==
  \A q \in QueryCalls :
    (qry[q].pc = "done" /\ qry[q].logged \in {"error", "throws"})
      => qry[q].result = Returned(qry[q].answer)

\* C9: whenever the count of the chunks of a document is above zero, the
\* similarity search filtered by its id returns at least one chunk.
C9_FilterCompatibility ==
  \A q \in QueryCalls :
    (qry[q].count > 0 /\ qry[q].found >= 0) => qry[q].found >= 1

\* C10 as stated: after a queryDocument call that returned the answer of
\* processDocsAndGenerateAnswer, chat_history has a row with the queried id,
\* the query and the returned answer.
C10_ChatTurnRecorded ==
  \A q \in QueryCalls :
    (qry[q].pc = "done" /\ qry[q].handed >= 0 /\ qry[q].queryDocument.kind = "returned")
      => \E k \in 1..Len(chat_history) :
           /\ chat_history[k].pdf_id = qry[q].pdfId
           /\ chat_history[k].user_message = qry[q].query
           /\ chat_history[k].assistant_message = qry[q].queryDocument.answer

\* C10: a queryDocument call whose insert into chat_history succeeded has
\* appended one row, with the queried id, the query and the answer it
\* returns; and no step changes or removes a row that is in chat_history.
C10_ChatTurnAppended ==
  [][/\ \A q \in QueryCalls :
          (qry[q].pc = "log" /\ qry'[q].pc = "done" /\ qry'[q].logged = "ok")
            => /\ qry'[q].queryDocument.kind = "returned"
               /\ chat_history' = Append(chat_history,
                    [pdf_id |-> qry[q].pdfId, user_id |-> qry[q].userId,
                     user_message |-> qry[q].query,
                     assistant_message |-> qry'[q].queryDocument.answer])
     /\ Len(chat_history') >= Len(chat_history)
     /\ SubSeq(chat_history', 1, Len(chat_history)) = chat_history]_vars

\* A second turn was appended behind the first.
C10_Witness ==
  /\ qry["q1"].pc = "done"
  /\ qry["q1"].logged = "ok"
  /\ Len(chat_history) = 2
  /\ chat_history[2].user_message = qry["q1"].query
  /\ chat_history[2].assistant_message = qry["q1"].result.answer

\* C11: a queryDocument call whose query or document id is missing or empty
\* fails with the error of the validation, and has read no table, called
\* neither the embedding client nor the model and written no row of
\* chat_history.
C11_InputValidation ==
  \A q \in QueryCalls :
    (qry[q].pc # "idle" /\ (Not(qry[q].query) \/ Not(qry[q].pdfId))) =>
      /\ qry[q].pc = "done"
      /\ qry[q].queryDocument =
           IF Not(qry[q].query) THEN Thrown("No query provided")
                                ELSE Thrown("No content ID provided")
      /\ qry[q].count = -1 /\ qry[q].found = -1 /\ qry[q].handed = -1
      /\ qry[q].embedCalls = 0
      /\ qry[q].llmCalls = 0
      /\ qry[q].chatWrites = 0
      /\ qry[q].logged = "none"

\* A query without a document id was refused while chunks were stored.
C11_Witness ==
  /\ pdf_chunks # {}
  /\ qry["q1"].pc = "done"
  /\ qry["q1"].query = "what"
  /\ qry["q1"].pdfId = NULL
  /\ qry["q1"].queryDocument = Thrown("No content ID provided")

\* The steps of an ingestion that must succeed for it to go on.
CriticalSteps == {"load", "check", "insert", "split", "embed", "store"}

\* C12: a processPdf or processLink call in which the load, the check for
\* content, the insert of the document, the split, the embedding or the store
\* of the chunks failed has ended rejected, without a document id, and has
\* run no step of the pipeline after the failed one, the summary least of all.
C12_CriticalFailuresFatal ==
  \A i \in IngestCalls :
    ing[i].failed \in CriticalSteps =>
      /\ ing[i].pc = "done"
      /\ ing[i].result.status = "rejected"
      /\ ing[i].result.id = NULL
      /\ ing[i].result.error # NULL
      /\ \A k \in 1..Len(ing[i].steps) :
           /\ ing[i].steps[k] # "summary"
           /\ (ing[i].steps[k] = ing[i].failed /\ k < Len(ing[i].steps))
                => (k + 1 = Len(ing[i].steps) /\ ing[i].steps[k + 1] = "cleanup")

\* An upload failed at the embedding and a link at the split, each after its
\* document was inserted.
C12_Witness ==
  /\ ing["p1"].failed = "embed"
  /\ ing["p1"].result.status = "rejected"
  /\ ing["l1"].failed = "split"
  /\ ing["l1"].result.status = "rejected"
  /\ Cardinality(pdfs) = 2

\* C13: when an ingestion failed after its document was inserted, no chunk of
\* that document is stored, and a later queryDocument of its id counts zero
\* chunks and returns the "not processed" answer.
C13_NoPartialIngestion ==
  \A i \in IngestCalls :
    (ing[i].result.status = "rejected" /\ ing[i].pdfId # NULL) =>
      /\ \A c \in pdf_chunks : JsonText(c.metadata, "pdf_id") # ing[i].pdfId
      /\ \A q \in QueryCalls :
           (qry[q].pdfId = ing[i].pdfId /\ qry[q].count >= 0) =>
             (qry[q].count = 0 /\ qry[q].queryDocument = Returned(NotProcessed))

\* C14: of two processPdf calls running side by side, each finds in its
\* temporary file the upload it wrote there until it has loaded it, and the
\* pages it loads and the document it inserts are those of its own upload.
C14_IndependentUploads ==
  \A i \in PdfCalls :
    /\ ing[i].pc = "load" => fs[ing[i].path] = ing[i].src
    /\ ing[i].pc = "insert" => ing[i].docs = PdfPages(ing[i].src, ing[i].path)
    /\ \A d \in pdfs : d.by = i => d.content = FullText(PdfPages(d.name, ing[i].path))

\* C15: no stored chunk and no chat turn refers to a document that is not in
\* pdfs, the deletion of a document having taken its chunks and its chat
\* turns with it.
C15_DeletionCascade ==
  /\ \A c \in pdf_chunks : \E d \in pdfs : d.id = JsonText(c.metadata, "pdf_id")
  /\ \A k \in 1..Len(chat_history) : \E d \in pdfs : d.id = chat_history[k].pdf_id

\* C16: when queryDocument threw, the answer of queryPdfDocument is an
\* apology that does not carry the message of the error, so that it is the
\* same answer whatever that message is.
C16_UserSafeFailureText ==
  \A q \in QueryCalls :
    (qry[q].pc = "done" /\ qry[q].queryDocument.kind = "thrown") =>
      /\ qry[q].result.answer.kind = "apology"
      /\ qry[q].result.answer.text # qry[q].queryDocument.error

\* C17: the similarity search of a call returned min(5, n) rows, n being the
\* number of rows whose metadata pdf_id is the queried id, and they are the
\* rows of that id nearest to the vector of the query, nearest first.
C17_SimilaritySearchExact ==
  \A q \in QueryCalls :
    LET rows == TextFilter(pdf_chunks, qry[q].pdfId)
        n == Cardinality(rows)
    IN  /\ qry[q].found >= 0 => qry[q].found = (IF n < 5 THEN n ELSE 5)
        /\ (qry[q].pc = "generate" /\ qry[q].from = "search") =>
             qry[q].docs = Documents(OrderByDistance(rows, embedQuery(qry[q].query), 5))

\* C18: a step of a queryDocument call leaves pdfs, pdf_chunks and the
\* temporary files as they are and the record of every other call as it is;
\* of chat_history it changes nothing, or appends one row; and a call writes
\* at most one row.
C18_QueriesReadOnly ==
  [][qry' # qry =>
       /\ pdfs' = pdfs
       /\ pdf_chunks' = pdf_chunks
       /\ fs' = fs
       /\ ing' = ing
       /\ \/ chat_history' = chat_history
          \/ /\ Len(chat_history') = Len(chat_history) + 1
             /\ SubSeq(chat_history', 1, Len(chat_history)) = chat_history
       /\ \A q \in QueryCalls :
            /\ qry'[q].chatWrites <= 1
            /\ qry'[q] # qry[q] => \A r \in QueryCalls \ {q} : qry'[r] = qry[r]]_vars

\* Two queries of the same document ran side by side, the second through the
\* fallback scan, and each wrote its turn.
C18_Witness ==
  /\ qry["q1"].pc = "done" /\ qry["q1"].logged = "ok" /\ qry["q1"].from = "search"
  /\ qry["q2"].pc = "log" /\ qry["q2"].from = "fallback"
  /\ qry["q1"].pdfId = qry["q2"].pdfId
  /\ Len(chat_history) = 1
  /\ pdf_chunks # {}

\* C19: the steps a processPdf call ran are a beginning of the order write,
\* load, check, insert, split, embed, store, verify, summary, cleanup, cut
\* after the step that failed, where only the cleanup follows; the call wrote
\* a document only after it loaded at least one page, gave every chunk the id
\* of that document, and stored chunks only after that document was inserted.
C19_IngestionStepOrder ==
  \A i \in PdfCalls :
    LET order == <<"write", "load", "check", "insert", "split", "embed", "store",
                   "verify", "summary", "cleanup">>
        steps == ing[i].steps
        ran == IF ing[i].failed # NULL THEN SubSeq(steps, 1, Len(steps) - 1) ELSE steps
        mine == {d \in pdfs : d.by = i}
    IN  /\ Len(ran) <= Len(order)
        /\ ran = SubSeq(order, 1, Len(ran))
        /\ ing[i].failed # NULL =>
             /\ steps[Len(steps)] = "cleanup"
             /\ ran[Len(ran)] = ing[i].failed
        /\ Cardinality(mine) <= 1
        /\ \A d \in mine :
             /\ d.content # << >>
             /\ \E k \in 1..Len(steps) : steps[k] = "insert"
             /\ ing[i].failed \notin {"load", "check", "insert"}
        /\ ing[i].failed \in {"load", "check", "insert"} => mine = {}
        /\ \A k \in 1..Len(ing[i].chunked) :
             \E d \in mine : ing[i].chunked[k].metadata["pdf_id"] = Str(d.id)
        /\ \A c \in pdf_chunks : c.by = i =>
             /\ \E d \in mine : JsonText(c.metadata, "pdf_id") = d.id
             /\ \E k \in 1..Len(steps) : steps[k] = "store"
             /\ ing[i].failed \notin {"split", "embed", "store"}

\* One upload went through every step, the other loaded no page and wrote no
\* document.
C19_Witness ==
  /\ ing["p1"].result.status = "ok"
  /\ Len(ing["p1"].steps) = 10
  /\ \E c \in pdf_chunks : c.by = "p1"
  /\ ing["p2"].failed = "check"
  /\ \A d \in pdfs : d.by = "p1"

\* C20: in a queryDocument call the query is embedded at most once, after a
\* count above zero; the similarity search has answered only after the
\* embedding; the fallback scan runs only after a search that returned no
\* row; the model is invoked at most once, after documents were retrieved;
\* and the insert into chat_history is made only after the answer is there.
C20_RetrieverStateOrder ==
  \A q \in QueryCalls :
    /\ qry[q].embedCalls <= 1
    /\ qry[q].embedCalls = 1 => qry[q].count > 0
    /\ qry[q].pc = "embed" => (qry[q].count > 0 /\ qry[q].embedCalls = 0)
    /\ (qry[q].pc = "search" \/ qry[q].found >= 0) => qry[q].embedCalls = 1
    /\ (qry[q].pc \in {"fallback", "alternative"} \/ qry[q].from = "fallback")
         => qry[q].found = 0
    /\ qry[q].pc \in {"search", "fallback", "alternative"}
         => (qry[q].llmCalls = 0 /\ qry[q].handed = -1 /\ qry[q].answer = NoAnswer)
    /\ qry[q].llmCalls <= 1
    /\ qry[q].llmCalls = 1 => (qry[q].found >= 0 /\ qry[q].handed >= 1)
    /\ qry[q].handed >= 0 => qry[q].found >= 0
    /\ (qry[q].pc = "log" \/ qry[q].logged # "none")
         => (qry[q].answer # NoAnswer /\ qry[q].handed >= 0)
    /\ qry[q].chatWrites > 0 => qry[q].logged = "ok"

\* A query went through the count, the embedding, a search without rows, the
\* fallback scan, the model and the insert of its turn.
C20_Witness ==
  /\ qry["q1"].pc = "done"
  /\ qry["q1"].count > 0
  /\ qry["q1"].embedCalls = 1
  /\ qry["q1"].found = 0
  /\ qry["q1"].from = "fallback"
  /\ qry["q1"].llmCalls = 1
  /\ qry["q1"].logged = "ok"

\* C21: the documents handed to processDocsAndGenerateAnswer are at most 5
\* when they come from the similarity search and at most 3 when they come
\* from the fallback scan, and each of them has the queried id as its
\* metadata pdf_id.
C21_BoundedSingleDocumentContext ==
  \A q \in QueryCalls :
    /\ qry[q].from = "search" => qry[q].handed <= 5
    /\ qry[q].from = "fallback" => qry[q].handed <= 3
    /\ qry[q].pc \in {"generate", "log"} =>
         /\ qry[q].handed = Len(qry[q].docs)
         /\ \A k \in 1..Len(qry[q].docs) :
              qry[q].docs[k].metadata["pdf_id"] = Str(qry[q].pdfId)

\* Beside the chunks of a link, a document of six chunks was queried twice:
\* the fallback scan handed on three of them, then the search five.
C21_Witness ==
  /\ \E c \in pdf_chunks : c.by = "l1"
  /\ \E c \in pdf_chunks : c.by = "p3"
  /\ qry["q1"].pc = "log"
  /\ qry["q1"].count = 6
  /\ qry["q1"].from = "search"
  /\ Len(qry["q1"].docs) = 5
  /\ Len(chat_history) = 1
  /\ chat_history[1].pdf_id = qry["q1"].pdfId
  /\ Len(chat_history[1].assistant_message.ctx) = 3

\* C22: after the model was invoked, either the answer of the call is the
\* answer of the model, or the invocation failed: then queryDocument has
\* thrown that error, there is no answer, and no row of chat_history was
\* written by the call.
C22_LlmFailureSurfaced ==
  \A q \in QueryCalls :
    (qry[q].llmCalls = 1 /\ qry[q].pc \in {"log", "done"}) =>
      \/ qry[q].answer.kind = "llm"
      \/ /\ qry[q].pc = "done"
         /\ qry[q].answer = NoAnswer
         /\ qry[q].queryDocument = Thrown("generation failed")
         /\ qry[q].result.answer.kind = "apology"
         /\ qry[q].chatWrites = 0
         /\ qry[q].logged = "none"

\* The model failed on the documents of the search, and chat_history is empty.
C22_Witness ==
  /\ qry["q1"].pc = "done"
  /\ qry["q1"].handed >= 1
  /\ qry["q1"].from = "search"
  /\ qry["q1"].queryDocument = Thrown("generation failed")
  /\ qry["q1"].answer = NoAnswer
  /\ chat_history = << >>

\* C23: every row of pdfs, the metadata user_id of every chunk and every row
\* of chat_history carry TEMPORARY_USER_ID, whatever the forms held, and
\* fetchUserPdfs lists every document of pdfs.
C23_SingleOwner ==
  /\ \A d \in pdfs : d.user_id = TEMPORARY_USER_ID
  /\ \A c \in pdf_chunks : c.metadata["user_id"] = Str(TEMPORARY_USER_ID)
  /\ \A k \in 1..Len(chat_history) : chat_history[k].user_id = TEMPORARY_USER_ID
  /\ \A d \in pdfs : [id |-> d.id, name |-> d.name] \in fetchUserPdfs

C25_SuccessImpliesQueryable ==
  \A i \in IngestCalls :
    ing[i].result.status = "ok" =>
      /\ \E c \in pdf_chunks : JsonText(c.metadata, "pdf_id") = ing[i].result.id
      /\ \A q \in QueryCalls :
           (qry[q].pdfId = ing[i].result.id /\ qry[q].pc = "done"
              /\ qry[q].queryDocument.kind = "returned")
             => qry[q].queryDocument # Returned(NotProcessed)

C27_SelectionConsistency ==
  home.contentId # NULL =>
    \E d \in pdfs :
      /\ d.id = home.contentId
      /\ d.name = IF home.file # NULL THEN home.file
                  ELSE IF ~Not(home.url) THEN home.url
                  ELSE home.selectedContentName

\* C28: isLoading is true while a query sent by handleSendMessage has
\* neither resolved, rejected nor timed out.
C28_LoadingWhilePending ==
  (\E s \in SendCalls : chat.send[s].pc = "racing") => chat.isLoading

\* The places in the chat of the assistant messages and of the user messages
\* of a handleSendMessage call.
RepliesTo(s) ==
  {k \in 1..Len(chat.messages) :
     chat.messages[k].role = "assistant" /\ chat.messages[k].of = s}
AskedBy(s) ==
  {k \in 1..Len(chat.messages) :
     chat.messages[k].role = "user" /\ chat.messages[k].of = s}

\* C29: a handleSendMessage call that added its user message never has more
\* than one assistant message; it has none while Promise.race is unsettled
\* and one, placed after the user message, from then on, whatever the server
\* or the timer does later; the message is the answer when the server
\* resolved first and an error message when it rejected first or the timer
\* fired first; and the message does come, the timer being bound to fire.
C29_OneReplyPerMessage ==
  /\ [](\A s \in SendCalls :
          /\ Cardinality(AskedBy(s)) = IF chat.send[s].pc = "idle" THEN 0 ELSE 1
          /\ Cardinality(RepliesTo(s)) = IF chat.send[s].pc = "done" THEN 1 ELSE 0
          /\ \A k \in RepliesTo(s) :
               /\ \A j \in AskedBy(s) : j < k
               /\ chat.send[s].first = "timeout" =>
                    chat.messages[k].content = ErrorMessage("Request to server timed out")
               /\ (chat.send[s].first = "server" /\ chat.send[s].server = "rejected") =>
                    chat.messages[k].content = ErrorMessage("fetch failed")
               /\ (chat.send[s].first = "server" /\ chat.send[s].server = "resolved") =>
                    chat.messages[k].content \in ChatAnswers)
  /\ \A s \in SendCalls :
       (chat.send[s].pc = "racing") ~> (Cardinality(RepliesTo(s)) = 1)

\* The answer to the first message came after its timer had fired, the
\* timer of the second fired after its answer had come, and each of the two
\* messages has one reply.
C29_Witness ==
  /\ chat.send["s1"] = [pc |-> "done", server |-> "resolved", timer |-> "fired",
                        first |-> "timeout"]
  /\ chat.send["s2"] = [pc |-> "done", server |-> "resolved", timer |-> "fired",
                        first |-> "server"]
  /\ Cardinality(RepliesTo("s1")) = 1
  /\ Cardinality(RepliesTo("s2")) = 1

\* C30: when a generateSummary call that wrote its temporary file ends, by
\* any of its returns, the file is not there any more.
C30_SummaryTempFileCleanup ==
  [][\A g \in SummaryCalls :
       (gen[g].pc # "done" /\ gen'[g].pc = "done" /\ gen[g].wrote)
         => fs'[gen[g].path] = NoFile]_vars

====
